---------------------------- MODULE Spec2Model ----------------------------
(***************************************************************************)
(* A model of the camera_sensor_database add-on                            *)
(* (src/camera_sensor_database/__init__.py): the persisted sensors.json,   *)
(* the module global SENSOR_DATA, the three cascading enum callbacks, the   *)
(* two apply operators and the two update operators with the add-on         *)
(* preferences they maintain.                                               *)
(*                                                                         *)
(* File contents are sequences of JSON tokens, so that "the same bytes",    *)
(* "a truncated file" and "the parsed mapping" are three different things.  *)
(***************************************************************************)
EXTENDS Integers, Sequences, FiniteSets, TLC

(***************************************************************************)
(* Python values as json.load produces them.  Every value is a record of    *)
(* one shape: t is the Python type, n the number (floats are kept in        *)
(* tenths: 36.0 is 360, 8192.5 is 81925), s the text of a str, o the        *)
(* mapping of a dict and ks its keys in insertion order; a list keeps its   *)
(* length in n (the add-on never reads a list's elements).                  *)
(***************************************************************************)
NoMap == [k \in {} |-> 0]

PyNone == [t |-> "NoneType", n |-> 0, s |-> "", o |-> NoMap, ks |-> <<>>]

PyInt(i) == [t |-> "int", n |-> i, s |-> "", o |-> NoMap, ks |-> <<>>]

PyFloat(tenths) == [t |-> "float", n |-> tenths, s |-> "", o |-> NoMap, ks |-> <<>>]

PyStr(x) == [t |-> "str", n |-> 0, s |-> x, o |-> NoMap, ks |-> <<>>]

PyList(len) == [t |-> "list", n |-> len, s |-> "", o |-> NoMap, ks |-> <<>>]

PyDict(o, ks) == [t |-> "dict", n |-> 0, s |-> "", o |-> o, ks |-> ks]

EmptyDict == PyDict(NoMap, <<>>)

\* dict(pairs) one pair at a time: a repeated key keeps its first position
\* and takes the last value.
DictSet(d, key, v) ==
    PyDict([k \in (DOMAIN d.o) \cup {key} |-> IF k = key THEN v ELSE d.o[k]],
           IF key \in DOMAIN d.o THEN d.ks ELSE Append(d.ks, key))

\* Mutant of Truthy: `v is not None` in place of the truth value.
Truthy_is_not_None(v) == v.t # "NoneType"

\* bool(v): the truth value Python's `if v` and `a and b` use.
Truthy(v) ==
    CASE v.t = "NoneType" -> FALSE
      [] v.t \in {"int", "float"} -> v.n # 0
      [] v.t = "str" -> v.s # ""
      [] v.t = "list" -> v.n # 0
      [] v.t = "dict" -> DOMAIN v.o # {}

(***************************************************************************)
(* JSON text.  A token is <<kind, text>>: "p" punctuation, "s" a string     *)
(* literal (text is its content), "n" a number literal, "l" the literal     *)
(* null, "w" white space.                                                   *)
(***************************************************************************)
P(x) == <<"p", x>>

S(x) == <<"s", x>>

N(x) == <<"n", x>>

W == <<"w", " ">>

NullTok == <<"l", "null">>

\* The number literals of the documents below and the values int()/float()
\* give them: a literal with a fraction is a float, one without is an int.
NumberValue(lit) ==
    CASE lit = "0" -> PyInt(0)
      [] lit = "1" -> PyInt(1)
      [] lit = "2" -> PyInt(2)
      [] lit = "42" -> PyInt(42)
      [] lit = "4096" -> PyInt(4096)
      [] lit = "5464" -> PyInt(5464)
      [] lit = "8192" -> PyInt(8192)
      [] lit = "24.0" -> PyFloat(240)
      [] lit = "36.0" -> PyFloat(360)
      [] lit = "8192.5" -> PyFloat(81925)

\* The result of a scan: ok = FALSE is json.JSONDecodeError.
Scanned(v, i) == [ok |-> TRUE, v |-> v, i |-> i]

DecodeError == [ok |-> FALSE, v |-> PyNone, i |-> 0]

IsTok(toks, i, tok) == i <= Len(toks) /\ toks[i] = tok

IsKind(toks, i, kind) == i <= Len(toks) /\ toks[i][1] = kind

RECURSIVE SkipWs(_, _)
SkipWs(toks, i) == IF IsKind(toks, i, "w") THEN SkipWs(toks, i + 1) ELSE i

RECURSIVE ScanOnce(_, _)
RECURSIVE ScanMembers(_, _, _)
RECURSIVE ScanElements(_, _, _)

\* json.scanner.py_make_scanner._scan_once
ScanOnce(toks, i) ==
    IF i > Len(toks) THEN DecodeError
    ELSE CASE toks[i][1] = "s" -> Scanned(PyStr(toks[i][2]), i + 1)
           [] toks[i][1] = "n" -> Scanned(NumberValue(toks[i][2]), i + 1)
           [] toks[i][1] = "l" -> Scanned(PyNone, i + 1)
           [] toks[i] = P("{") ->
                LET j == SkipWs(toks, i + 1)
                IN  IF IsTok(toks, j, P("}")) THEN Scanned(EmptyDict, j + 1)
                    ELSE ScanMembers(toks, j, EmptyDict)
           [] toks[i] = P("[") ->
                LET j == SkipWs(toks, i + 1)
                IN  IF IsTok(toks, j, P("]")) THEN Scanned(PyList(0), j + 1)
                    ELSE ScanElements(toks, j, 0)
           [] OTHER -> DecodeError

\* json.decoder.JSONObject: the loop over "key": value pairs, at a key.
ScanMembers(toks, i, d) ==
    IF ~IsKind(toks, i, "s") THEN DecodeError
    ELSE LET c == SkipWs(toks, i + 1)
         IN  IF ~IsTok(toks, c, P(":")) THEN DecodeError
             ELSE LET r == ScanOnce(toks, SkipWs(toks, c + 1))
                  IN  IF ~r.ok THEN DecodeError
                      ELSE LET d2 == DictSet(d, toks[i][2], r.v)
                               e == SkipWs(toks, r.i)
                           IN  IF IsTok(toks, e, P("}")) THEN Scanned(d2, e + 1)
                               ELSE IF IsTok(toks, e, P(","))
                                    THEN ScanMembers(toks, SkipWs(toks, e + 1), d2)
                                    ELSE DecodeError

\* json.decoder.JSONArray: the loop over the elements, at an element.
ScanElements(toks, i, len) ==
    LET r == ScanOnce(toks, i)
    IN  IF ~r.ok THEN DecodeError
        ELSE LET e == SkipWs(toks, r.i)
             IN  IF IsTok(toks, e, P("]")) THEN Scanned(PyList(len + 1), e + 1)
                 ELSE IF IsTok(toks, e, P(","))
                      THEN ScanElements(toks, SkipWs(toks, e + 1), len + 1)
                      ELSE DecodeError

\* json.load / JSONDecoder.decode: one value, white space around it, and
\* nothing after it ("Extra data" otherwise).
JsonLoad(toks) ==
    LET r == ScanOnce(toks, SkipWs(toks, 1))
    IN  IF ~r.ok THEN DecodeError
        ELSE IF SkipWs(toks, r.i) = Len(toks) + 1 THEN r ELSE DecodeError


(***************************************************************************)
(* The documents sensors.json and the remote endpoint may hold.             *)
(***************************************************************************)
Braces(body) == <<P("{")>> \o body \o <<P("}")>>

Pair(key, value) == <<S(key), P(":")>> \o value

Comma == <<P(",")>>

\* {"width": w, "height": h} from the two literals' tokens
WH(w, h) == Braces(Pair("width", <<w>>) \o Comma \o Pair("height", <<h>>))

\* "name": {"sensor dimensions": {formats}}
ModelEntry(name, formats) ==
    Pair(name, Braces(Pair("sensor dimensions", Braces(formats))))

FullFrameFormat ==
    Pair("Full Frame", Braces(Pair("mm", WH(N("36.0"), N("24.0"))) \o Comma \o
                              Pair("resolution", WH(N("8192"), N("5464")))))

\* The dataset of the specification's worked example.
DocAcme == Braces(Pair("Acme", Braces(ModelEntry("X1", FullFrameFormat))))

\* The same dataset with white space after the first brace: other bytes,
\* the same mapping.
DocAcmeSpaced == <<DocAcme[1], W>> \o Tail(DocAcme)

\* A width of zero and a floating-point pixel width.
S35Format ==
    Pair("S35", Braces(Pair("mm", WH(N("0"), N("24.0"))) \o Comma \o
                       Pair("resolution", WH(N("8192.5"), N("5464")))))

\* No mm record, and a resolution record without a height.
OpenGateFormat ==
    Pair("Open Gate",
         Braces(Pair("resolution", Braces(Pair("width", <<N("4096")>>)))))

\* A null height, and no resolution record.
NullHeightFormat ==
    Pair("Full Frame", Braces(Pair("mm", WH(N("36.0"), NullTok))))

\* Keys out of order at every level, a repeated manufacturer key, a
\* manufacturer without models, a manufacturer named NONE, a model without
\* "sensor dimensions", and the formats above.
DocMixed ==
    Braces(Pair("arri", Braces(<<>>)) \o Comma \o
           Pair("Zeta", Braces(ModelEntry("Z9", S35Format \o Comma \o
                                                OpenGateFormat))) \o Comma \o
           Pair("NONE", Braces(ModelEntry("X1", FullFrameFormat))) \o Comma \o
           Pair("Acme", Braces(Pair("X10", Braces(<<>>)) \o Comma \o
                               ModelEntry("X1", NullHeightFormat))) \o Comma \o
           Pair("arri", Braces(<<>>)))

\* Valid JSON that is not an object.
DocList == <<P("["), N("1"), P(","), N("2"), P("]")>>

DocNumber == <<N("42")>>

DocEmptyObject == Braces(<<>>)

(***************************************************************************)
(* Python's subscripting, dict.get and dict.keys, with the exception each   *)
(* raises.  A result is [exc, v]: exc = "" when the expression returned v.  *)
(***************************************************************************)
Returned(v) == [exc |-> "", v |-> v]

Raised(exc) == [exc |-> exc, v |-> PyNone]

\* r[key], r being the result of the expression to its left
Subscript(r, key) ==
    IF r.exc # "" THEN r
    ELSE IF r.v.t # "dict" THEN Raised("TypeError")
    ELSE IF key \in DOMAIN r.v.o THEN Returned(r.v.o[key])
    ELSE Raised("KeyError")

\* r.get(key, default)
Get(r, key, default) ==
    IF r.exc # "" THEN r
    ELSE IF r.v.t # "dict" THEN Raised("AttributeError")
    ELSE IF key \in DOMAIN r.v.o THEN Returned(r.v.o[key])
    ELSE Returned(default)

\* list(r.keys()): the keys in insertion order
Keys(r) ==
    IF r.exc # "" THEN [exc |-> r.exc, v |-> <<>>]
    ELSE IF r.v.t # "dict" THEN [exc |-> "AttributeError", v |-> <<>>]
    ELSE [exc |-> "", v |-> r.v.ks]

(***************************************************************************)
(* Python's order on str: by code point, a proper prefix first.  The        *)
(* table gives the code points of the keys of the documents above.          *)
(***************************************************************************)
CodePoints(str) ==
    CASE str = "Acme" -> <<65, 99, 109, 101>>
      [] str = "Zeta" -> <<90, 101, 116, 97>>
      [] str = "arri" -> <<97, 114, 114, 105>>
      [] str = "NONE" -> <<78, 79, 78, 69>>
      [] str = "X1" -> <<88, 49>>
      [] str = "X10" -> <<88, 49, 48>>
      [] str = "Z9" -> <<90, 57>>
      [] str = "Full Frame" -> <<70, 117, 108, 108, 32, 70, 114, 97, 109, 101>>
      [] str = "Open Gate" -> <<79, 112, 101, 110, 32, 71, 97, 116, 101>>
      [] str = "S35" -> <<83, 51, 53>>

RECURSIVE SeqLess(_, _)
SeqLess(a, b) ==
    IF b = <<>> THEN FALSE
    ELSE IF a = <<>> THEN TRUE
    ELSE IF a[1] # b[1] THEN a[1] < b[1]
    ELSE SeqLess(Tail(a), Tail(b))

StrLess(a, b) == SeqLess(CodePoints(a), CodePoints(b))

\* The order of the enum items, tuples (identifier, name, description):
\* the identifiers of one list differ, so they decide.
ItemLess(a, b) == StrLess(a[1], b[1])

RECURSIVE Insert(_, _)
Insert(sorted, item) ==
    IF sorted = <<>> THEN <<item>>
    ELSE IF ItemLess(item, sorted[1]) THEN <<item>> \o sorted
    ELSE <<sorted[1]>> \o Insert(Tail(sorted), item)

RECURSIVE SortedFrom(_, _)
SortedFrom(items, acc) ==
    IF items = <<>> THEN acc
    ELSE SortedFrom(Tail(items), Insert(acc, items[1]))

\* sorted(items)
Sorted(items) == SortedFrom(items, <<>>)

\* [(k, k, "") for k in keys]
Items(keys) == [i \in 1..Len(keys) |-> <<keys[i], keys[i], "">>]

(***************************************************************************)
(* The dynamic enum callbacks.                                              *)
(***************************************************************************)
NoDataItem ==
    <<"NONE", "No Data Found",
      "Please download the database in Add-on Preferences.">>

NotApplicableItem == <<"NONE", "N/A", "">>

\* sorted(items) if items else [sentinel]
SortedOr(keys, sentinel) ==
    IF keys.exc # "" THEN keys
    ELSE IF keys.v # <<>> THEN [exc |-> "", v |-> Sorted(Items(keys.v))]
    ELSE [exc |-> "", v |-> <<sentinel>>]

get_manufacturers(data) == SortedOr(Keys(Returned(data)), NoDataItem)

get_models(data, p) ==
    IF p.manufacturers = "" \/ p.manufacturers = "NONE"
    THEN [exc |-> "", v |-> <<NotApplicableItem>>]
    ELSE SortedOr(Keys(Get(Returned(data), p.manufacturers, EmptyDict)),
                  NotApplicableItem)

get_formats(data, p) ==
    IF \/ p.manufacturers = "" \/ p.models = ""
       \/ p.manufacturers = "NONE" \/ p.models = "NONE"
    THEN [exc |-> "", v |-> <<NotApplicableItem>>]
    ELSE SortedOr(Keys(Get(Get(Get(Returned(data), p.manufacturers, EmptyDict),
                               p.models, EmptyDict),
                           "sensor dimensions", EmptyDict)),
                  NotApplicableItem)

\* The identifiers an EnumProperty accepts: those of the items its
\* callback returns (none when the callback raises).
Identifiers(choices) ==
    IF choices.exc # "" THEN {}
    ELSE {choices.v[i][1] : i \in 1..Len(choices.v)}

(***************************************************************************)
(* The state.                                                               *)
(***************************************************************************)
VARIABLES
    file,           \* sensors.json: [exists, bytes]
    SENSOR_DATA,    \* the module global
    props,          \* scene.csd_sensor_properties: manufacturers, models, formats
    camera,         \* the active camera's sensor_fit, sensor_width, sensor_height
    render,         \* scene.render: resolution_x, resolution_y
    prefs,          \* the add-on preferences: remote_sha, last_checked, update_available
    online_access,  \* bpy.app.online_access
    remote,         \* what the two URLs serve: [data, sha]
    last,           \* the operation that ran last: [op, result, report, sha]
    in_sync         \* history: a download finished and the remote has not
                    \* published since

vars == <<file, SENSOR_DATA, props, camera, render, prefs, online_access,
          remote, last, in_sync>>

\* The latest minute datetime.now() may return.
MaxClock == 0

\* The longest prefix a write that fails part-way may leave behind.
MaxCut == 1

HTTP_OK == 200

Absent == [exists |-> FALSE, bytes |-> <<>>]

Holding(bytes) == [exists |-> TRUE, bytes |-> bytes]

\* What the remote repository may publish: the dataset and its blob hash.
Releases ==
    { [data |-> DocAcme, sha |-> "sha-acme"],
      [data |-> DocAcmeSpaced, sha |-> "sha-acme-spaced"],
      [data |-> DocMixed, sha |-> "sha-mixed"],
      [data |-> DocList, sha |-> "sha-list"] }

\* The persisted file a session may start from: none, an earlier download,
\* one cut short, and JSON that is no object.
InitialFiles ==
    { Absent, Holding(DocAcme), Holding(SubSeq(DocAcme, 1, Len(DocAcme) - 1)),
      Holding(DocEmptyObject), Holding(DocList), Holding(DocNumber) }

\* datetime.now().strftime("%B %d, %Y at %I:%M %p") at minute t
strftime(t) ==
    "November 01, 2026 at 02:" \o (IF t < 10 THEN "0" ELSE "") \o ToString(t)
        \o " PM"

Report(op, result, report, sha) ==
    [op |-> op, result |-> result, report |-> report, sha |-> sha]

(***************************************************************************)
(* load_sensor_data: the value it leaves in SENSOR_DATA.                    *)
(***************************************************************************)
\* Mutant of load_sensor_data: without `global SENSOR_DATA` the assignments
\* bind a local, and the global keeps its initial {}.
load_sensor_data_without_global(f) == EmptyDict

load_sensor_data(f) ==
    IF f.exists
    THEN LET r == JsonLoad(f.bytes)
         IN  IF r.ok THEN r.v ELSE EmptyDict
    ELSE EmptyDict

\* register(): the classes are registered and the dataset is loaded.
Register ==
    /\ SENSOR_DATA' = load_sensor_data(file)
    /\ last' = Report("register", "RETURNED", "", "")
    /\ UNCHANGED <<file, props, camera, render, prefs, online_access, remote, in_sync>>

(***************************************************************************)
(* The selection: an EnumProperty takes an identifier of its current items. *)
(***************************************************************************)
SelectManufacturer ==
    /\ \E m \in Identifiers(get_manufacturers(SENSOR_DATA)) :
          props' = [props EXCEPT !.manufacturers = m]
    /\ last' = Report("select", "RETURNED", "", "")
    /\ UNCHANGED <<file, SENSOR_DATA, camera, render, prefs, online_access, remote, in_sync>>

SelectModel ==
    /\ \E m \in Identifiers(get_models(SENSOR_DATA, props)) :
          props' = [props EXCEPT !.models = m]
    /\ last' = Report("select", "RETURNED", "", "")
    /\ UNCHANGED <<file, SENSOR_DATA, camera, render, prefs, online_access, remote, in_sync>>

SelectFormat ==
    /\ \E f \in Identifiers(get_formats(SENSOR_DATA, props)) :
          props' = [props EXCEPT !.formats = f]
    /\ last' = Report("select", "RETURNED", "", "")
    /\ UNCHANGED <<file, SENSOR_DATA, camera, render, prefs, online_access, remote, in_sync>>

\* SENSOR_DATA[manufacturers][models]["sensor dimensions"][formats][leaf]
FormatData(data, p, leaf) ==
    Subscript(Subscript(Subscript(Subscript(Subscript(Returned(data),
        p.manufacturers), p.models), "sensor dimensions"), p.formats), leaf)

(***************************************************************************)
(* CSD_OT_ApplySensor                                                       *)
(***************************************************************************)
ApplySensor_poll(has_camera, p) ==
    has_camera /\ p.formats # "" /\ p.formats # "NONE"

\* execute: [result, report, camera]; an exception other than KeyError
\* leaves the operator.
ApplySensor_execute(data, p, cam) ==
    LET format_data == FormatData(data, p, "mm")
        width == Get(format_data, "width", PyNone)
        height == Get(format_data, "height", PyNone)
    IN  IF format_data.exc = "KeyError"
        THEN [result |-> "CANCELLED", report |-> "ERROR", camera |-> cam]
        ELSE IF format_data.exc # "" \/ width.exc # "" \/ height.exc # ""
        THEN [result |-> "RAISED", report |-> "", camera |-> cam]
        ELSE IF Truthy(width.v) /\ Truthy(height.v)
        THEN [result |-> "FINISHED", report |-> "INFO",
              camera |-> [sensor_fit |-> "HORIZONTAL",
                          sensor_width |-> width.v,
                          sensor_height |-> height.v]]
        ELSE [result |-> "CANCELLED", report |-> "WARNING", camera |-> cam]

ApplySensor ==
    /\ \E has_camera \in BOOLEAN : ApplySensor_poll(has_camera, props)
    /\ LET out == ApplySensor_execute(SENSOR_DATA, props, camera)
       IN  /\ camera' = out.camera
           /\ last' = Report("apply_sensor", out.result, out.report, "")
    /\ UNCHANGED <<file, SENSOR_DATA, props, render, prefs, online_access, remote, in_sync>>

(***************************************************************************)
(* CSD_OT_ApplyResolution                                                   *)
(***************************************************************************)
\* Mutant of IsInt: isinstance(v, (int, float)).
IsInt_or_float(v) == v.t \in {"int", "float"}

\* isinstance(v, int)
IsInt(v) == v.t = "int"

\* poll: [exc, v]; KeyError and TypeError are caught and give False.
ApplyResolution_poll(data, p) ==
    IF p.formats = "" \/ p.formats = "NONE" THEN [exc |-> "", v |-> FALSE]
    ELSE LET res_data == FormatData(data, p, "resolution")
             width == Get(res_data, "width", PyNone)
             height == Get(res_data, "height", PyNone)
         IN  IF res_data.exc \in {"KeyError", "TypeError"}
             THEN [exc |-> "", v |-> FALSE]
             ELSE IF width.exc # "" THEN [exc |-> width.exc, v |-> FALSE]
             ELSE IF height.exc # "" THEN [exc |-> height.exc, v |-> FALSE]
             ELSE [exc |-> "", v |-> IsInt(width.v) /\ IsInt(height.v)]

ApplyResolution_execute(data, p, rnd) ==
    LET res_data == FormatData(data, p, "resolution")
        width == Get(res_data, "width", PyNone)
        height == Get(res_data, "height", PyNone)
    IN  IF res_data.exc = "KeyError"
        THEN [result |-> "CANCELLED", report |-> "ERROR", render |-> rnd]
        ELSE IF res_data.exc # "" \/ width.exc # "" \/ height.exc # ""
        THEN [result |-> "RAISED", report |-> "", render |-> rnd]
        ELSE IF IsInt(width.v) /\ IsInt(height.v)
        THEN [result |-> "FINISHED", report |-> "INFO",
              render |-> [resolution_x |-> width.v, resolution_y |-> height.v]]
        ELSE [result |-> "CANCELLED", report |-> "WARNING", render |-> rnd]

ApplyResolution ==
    /\ LET ok == ApplyResolution_poll(SENSOR_DATA, props)
       IN  ok.exc = "" /\ ok.v
    /\ LET out == ApplyResolution_execute(SENSOR_DATA, props, render)
       IN  /\ render' = out.render
           /\ last' = Report("apply_resolution", out.result, out.report, "")
    /\ UNCHANGED <<file, SENSOR_DATA, props, camera, prefs, online_access, remote, in_sync>>

(***************************************************************************)
(* The remote version endpoint.  A request either raises (no route, an      *)
(* HTTP error status, a body that is not JSON) or returns a response with   *)
(* a status and the value data.get('sha') will give: the hash, or None      *)
(* when the document has no such field.                                     *)
(***************************************************************************)
NoResponse == [raises |-> TRUE, status |-> 0, sha |-> PyNone]

ApiResponses(rem) ==
    { NoResponse,
      [raises |-> FALSE, status |-> 204, sha |-> PyNone],
      [raises |-> FALSE, status |-> HTTP_OK, sha |-> PyNone],
      [raises |-> FALSE, status |-> HTTP_OK, sha |-> PyStr(rem.sha)] }

(***************************************************************************)
(* CSD_OT_CheckForUpdate.execute: [result, report, prefs, sha]              *)
(***************************************************************************)
\* Mutant of CheckForUpdate_execute: the check stores the hash it read.
CheckForUpdate_execute_storing(pr, online, response, now) ==
    IF ~online
    THEN [result |-> "CANCELLED", report |-> "WARNING", prefs |-> pr, sha |-> ""]
    ELSE IF response.raises \/ response.status # HTTP_OK
    THEN [result |-> "CANCELLED", report |-> "ERROR", prefs |-> pr, sha |-> ""]
    ELSE LET remote_sha == response.sha
         IN  [result |-> "FINISHED", report |-> "INFO", sha |-> remote_sha.s,
              prefs |-> [update_available |->
                             Truthy(remote_sha) /\ remote_sha.s # pr.remote_sha,
                         remote_sha |-> remote_sha.s,
                         last_checked |-> strftime(now)]]

CheckForUpdate_execute(pr, online, response, now) ==
    IF ~online
    THEN [result |-> "CANCELLED", report |-> "WARNING", prefs |-> pr, sha |-> ""]
    ELSE IF response.raises \/ response.status # HTTP_OK
    THEN [result |-> "CANCELLED", report |-> "ERROR", prefs |-> pr, sha |-> ""]
    ELSE LET remote_sha == response.sha
         IN  [result |-> "FINISHED", report |-> "INFO", sha |-> remote_sha.s,
              prefs |-> [pr EXCEPT
                  !.update_available =
                      Truthy(remote_sha) /\ remote_sha.s # pr.remote_sha,
                  !.last_checked = strftime(now)]]

CheckForUpdate ==
    /\ \E out \in { CheckForUpdate_execute(prefs, online_access, response, now) :
                        response \in ApiResponses(remote), now \in 0..MaxClock } :
          /\ prefs' = out.prefs
          /\ last' = Report("check_for_update", out.result, out.report, out.sha)
    /\ UNCHANGED <<file, SENSOR_DATA, props, camera, render, online_access, remote, in_sync>>

(***************************************************************************)
(* CSD_OT_UpdateSensors.execute.  fails names the statement that raises:    *)
(* "urlopen" the dataset request, "open" the open(file_path, 'wb') after    *)
(* it, "read" response.read() (the file is open, so already truncated),     *)
(* "write" out_file.write after cut tokens, "none" nothing up to the        *)
(* version request, whose outcome is response.  Assigning None to the       *)
(* StringProperty remote_sha raises TypeError.                              *)
(* The result is [result, report, file, prefs, data, sha].                  *)
(***************************************************************************)
\* The ways one run can go: the statement that raises, and the inputs the
\* run reads up to there.
UpdateRuns(rem) ==
    { [fails |-> f, cut |-> 0, response |-> NoResponse, now |-> 0] :
          f \in {"urlopen", "open", "read"} }
    \cup { [fails |-> "write", cut |-> c, response |-> NoResponse, now |-> 0] :
          c \in 0..MaxCut }
    \cup { [fails |-> "none", cut |-> 0, response |-> r, now |-> n] :
          r \in ApiResponses(rem), n \in 0..MaxClock }

\* Mutant of UpdateSensors_execute: update_available is not reset.
UpdateSensors_execute_keeping_flag(f, data, pr, online, rem, fails, cut, response, now) ==
    LET cancelled(f2, level) ==
            [result |-> "CANCELLED", report |-> level, file |-> f2,
             prefs |-> pr, data |-> data, sha |-> ""]
    IN  IF ~online THEN cancelled(f, "WARNING")
        ELSE IF fails \in {"urlopen", "open"} THEN cancelled(f, "ERROR")
        ELSE IF fails = "read" THEN cancelled(Holding(<<>>), "ERROR")
        ELSE IF fails = "write"
        THEN cancelled(Holding(SubSeq(rem.data, 1, cut)), "ERROR")
        ELSE IF response.raises \/ response.sha.t # "str"
        THEN cancelled(Holding(rem.data), "ERROR")
        ELSE [result |-> "FINISHED", report |-> "INFO",
              file |-> Holding(rem.data),
              prefs |-> [remote_sha |-> response.sha.s,
                         update_available |-> pr.update_available,
                         last_checked |-> strftime(now)],
              data |-> load_sensor_data(Holding(rem.data)),
              sha |-> response.sha.s]

UpdateSensors_execute(f, data, pr, online, rem, fails, cut, response, now) ==
    LET cancelled(f2, level) ==
            [result |-> "CANCELLED", report |-> level, file |-> f2,
             prefs |-> pr, data |-> data, sha |-> ""]
    IN  IF ~online THEN cancelled(f, "WARNING")
        ELSE IF fails \in {"urlopen", "open"} THEN cancelled(f, "ERROR")
        ELSE IF fails = "read" THEN cancelled(Holding(<<>>), "ERROR")
        ELSE IF fails = "write"
        THEN cancelled(Holding(SubSeq(rem.data, 1, cut)), "ERROR")
        ELSE IF response.raises \/ response.sha.t # "str"
        THEN cancelled(Holding(rem.data), "ERROR")
        ELSE [result |-> "FINISHED", report |-> "INFO",
              file |-> Holding(rem.data),
              prefs |-> [remote_sha |-> response.sha.s,
                         update_available |-> FALSE,
                         last_checked |-> strftime(now)],
              data |-> load_sensor_data(Holding(rem.data)),
              sha |-> response.sha.s]

UpdateSensors ==
    /\ \E out \in { UpdateSensors_execute(file, SENSOR_DATA, prefs,
                        online_access, remote, run.fails, run.cut,
                        run.response, run.now) : run \in UpdateRuns(remote) } :
          /\ file' = out.file
          /\ SENSOR_DATA' = out.data
          /\ prefs' = out.prefs
          /\ last' = Report("update_sensors", out.result, out.report, out.sha)
          /\ in_sync' = (out.result = "FINISHED" \/ in_sync)
    /\ UNCHANGED <<props, camera, render, online_access, remote>>

(***************************************************************************)
(* The environment: the user's network preference and the remote            *)
(* repository.                                                              *)
(***************************************************************************)
SetOnlineAccess ==
    /\ online_access' = ~online_access
    /\ last' = Report("environment", "RETURNED", "", "")
    /\ UNCHANGED <<file, SENSOR_DATA, props, camera, render, prefs, remote,
                   in_sync>>

Publish ==
    /\ remote' \in Releases \ {remote}
    /\ in_sync' = FALSE
    /\ last' = Report("environment", "RETURNED", "", "")
    /\ UNCHANGED <<file, SENSOR_DATA, props, camera, render, prefs, online_access>>

(***************************************************************************)
(* The update specification: the state after register() in a fresh          *)
(* session, and the operations on the persisted file, the dataset and the   *)
(* preferences.  None of them reads the selection, the camera or the        *)
(* render settings.                                                         *)
(***************************************************************************)
Init ==
    /\ file \in InitialFiles
    /\ SENSOR_DATA = load_sensor_data(file)
    /\ props = [manufacturers |-> "", models |-> "", formats |-> ""]
    /\ camera = [sensor_fit |-> "AUTO", sensor_width |-> PyFloat(360),
                 sensor_height |-> PyFloat(240)]
    /\ render = [resolution_x |-> PyInt(1920), resolution_y |-> PyInt(1080)]
    /\ prefs = [remote_sha |-> "", last_checked |-> "Never",
                update_available |-> FALSE]
    /\ online_access \in BOOLEAN
    /\ remote \in Releases
    /\ last = Report("register", "RETURNED", "", "")
    /\ in_sync = FALSE

Next ==
    \/ Register
    \/ CheckForUpdate
    \/ UpdateSensors
    \/ SetOnlineAccess
    \/ Publish

Spec == Init /\ [][Next]_vars

(***************************************************************************)
(* The selection specification: a session that starts from a dataset,       *)
(* with network access, against one remote release; the selection, the two  *)
(* apply operators, and the reloads a download and a new register() cause.  *)
(***************************************************************************)
SelectFiles == {Absent, Holding(DocAcme), Holding(DocMixed)}

SelectReleases ==
    {r \in Releases : r.data \in {DocAcme, DocMixed, DocList}}

InitSelect ==
    /\ file \in SelectFiles
    /\ SENSOR_DATA = load_sensor_data(file)
    /\ props = [manufacturers |-> "", models |-> "", formats |-> ""]
    /\ camera = [sensor_fit |-> "AUTO", sensor_width |-> PyFloat(360),
                 sensor_height |-> PyFloat(240)]
    /\ render = [resolution_x |-> PyInt(1920), resolution_y |-> PyInt(1080)]
    /\ prefs = [remote_sha |-> "", last_checked |-> "Never",
                update_available |-> FALSE]
    /\ online_access = TRUE
    /\ remote \in SelectReleases
    /\ last = Report("register", "RETURNED", "", "")
    /\ in_sync = FALSE

NextSelect ==
    \/ Register
    \/ UpdateSensors
    \/ SelectManufacturer
    \/ SelectModel
    \/ SelectFormat
    \/ ApplySensor
    \/ ApplyResolution

SpecSelect == InitSelect /\ [][NextSelect]_vars

(***************************************************************************)
(* What the claims speak of, read off the data directly.                    *)
(***************************************************************************)
Missing == [t |-> "missing", n |-> 0, s |-> "", o |-> NoMap, ks |-> <<>>]

\* The value under a path of keys, Missing when a key of the path is not
\* there (or what holds it is no mapping).
RECURSIVE Walk(_, _)
Walk(v, path) ==
    IF path = <<>> THEN v
    ELSE IF v.t = "dict" /\ Head(path) \in DOMAIN v.o
    THEN Walk(v.o[Head(path)], Tail(path))
    ELSE Missing

SelectionPath(p) == <<p.manufacturers, p.models, "sensor dimensions", p.formats>>

KeysPresent(data, p) == Walk(data, SelectionPath(p)).t # "missing"

\* The field of the selected format's mm or resolution record.
Field(data, p, leaf, name) == Walk(data, SelectionPath(p) \o <<leaf, name>>)

\* The parsed mapping of a file whose content is a well-formed object.
WellFormed(bytes) == JsonLoad(bytes).ok /\ JsonLoad(bytes).v.t = "dict"

UpdateCancelled == last.op = "update_sensors" /\ last.result = "CANCELLED"

UpdateFinished == last.op = "update_sensors" /\ last.result = "FINISHED"

CheckFinished == last.op = "check_for_update" /\ last.result = "FINISHED"

CheckCancelled == last.op = "check_for_update" /\ last.result = "CANCELLED"

(***************************************************************************)
(* C1.  A download that returns CANCELLED leaves the persisted file         *)
(* byte-for-byte what it was and SENSOR_DATA unchanged.                     *)
(* Stated as claimed; the file half fails once open(file_path, 'wb') has    *)
(* run.                                                                     *)
(***************************************************************************)
C1_FailedDownloadChangesNothing ==
    [][UpdateCancelled' => (file' = file /\ SENSOR_DATA' = SENSOR_DATA)]_vars

(***************************************************************************)
(* C2.  After load_sensor_data, SENSOR_DATA is the parsed mapping when the  *)
(* file holds a well-formed object and the empty mapping in every other     *)
(* case (absent, truncated, valid JSON that is no object).                  *)
(* Stated as claimed; it fails for valid JSON that is no object.            *)
(***************************************************************************)
C2_LoadGivesMappingOrEmpty ==
    last.op = "register" =>
        SENSOR_DATA = IF file.exists /\ WellFormed(file.bytes)
                      THEN JsonLoad(file.bytes).v
                      ELSE EmptyDict

(***************************************************************************)
(* C8.  When a download of a well-formed object returns FINISHED, the       *)
(* persisted file holds exactly the downloaded bytes and SENSOR_DATA is     *)
(* what parsing those bytes gives; a load_sensor_data that follows a load   *)
(* with no download in between leaves SENSOR_DATA as it is.                 *)
(***************************************************************************)
C8_DownloadRoundTrip ==
    [][/\ (UpdateFinished' /\ WellFormed(remote.data)) =>
              /\ file' = Holding(remote.data)
              /\ SENSOR_DATA' = JsonLoad(remote.data).v
       /\ (last'.op = "register" /\ (UpdateFinished \/ last.op = "register")) =>
              SENSOR_DATA' = SENSOR_DATA]_vars

\* A finished download of the mixed dataset, over a file that held other
\* bytes.
C8_Witness ==
    /\ UpdateFinished
    /\ file = Holding(DocMixed)
    /\ SENSOR_DATA = JsonLoad(DocMixed).v
    /\ DOMAIN SENSOR_DATA.o = {"Acme", "NONE", "Zeta", "arri"}

(***************************************************************************)
(* C9.  A completed update check sets update_available to whether the       *)
(* remote hash it read differs from the stored hash, and changes neither    *)
(* the stored hash, the persisted file nor SENSOR_DATA; a cancelled check   *)
(* changes no preference.  (A response without a hash reads as no            *)
(* difference.)                                                             *)
(***************************************************************************)
C9_CheckComparesHashes ==
    [][/\ CheckFinished' =>
              /\ last'.sha \in {"", remote.sha}
              /\ prefs'.update_available =
                     (last'.sha # "" /\ last'.sha # prefs.remote_sha)
              /\ prefs'.remote_sha = prefs.remote_sha
              /\ file' = file
              /\ SENSOR_DATA' = SENSOR_DATA
       /\ CheckCancelled' =>
              /\ prefs' = prefs
              /\ file' = file
              /\ SENSOR_DATA' = SENSOR_DATA]_vars

\* A completed check that found a hash other than the stored, non-default
\* one.
C9_Witness ==
    /\ CheckFinished
    /\ prefs.update_available
    /\ prefs.remote_sha # ""
    /\ last.sha = remote.sha
    /\ last.sha # prefs.remote_sha

(***************************************************************************)
(* C10.  Once a download has finished, and until the remote publishes       *)
(* again, the stored hash is the remote hash and update_available is        *)
(* false, whatever checks and downloads follow; update_available turns      *)
(* true only in a completed check that read a hash other than the stored    *)
(* one.                                                                     *)
(***************************************************************************)
InSyncMeansUpToDate ==
    in_sync => (prefs.remote_sha = remote.sha /\ ~prefs.update_available)

C10_UpToDateAfterDownload ==
    /\ []InSyncMeansUpToDate
    /\ [][/\ UpdateFinished' =>
                 (prefs'.remote_sha = remote.sha /\ ~prefs'.update_available)
          /\ (~prefs.update_available /\ prefs'.update_available) =>
                 /\ CheckFinished'
                 /\ last'.sha = remote.sha
                 /\ last'.sha # prefs.remote_sha]_vars

\* A completed check after a finished download, the remote unchanged.
C10_Witness ==
    /\ in_sync
    /\ CheckFinished
    /\ last.sha = prefs.remote_sha
    /\ ~prefs.update_available
    /\ prefs.remote_sha = "sha-mixed"

(***************************************************************************)
(* C3.  With a selection whose keys are not all in the current dataset,     *)
(* neither apply operator writes to the camera or the render settings, and  *)
(* neither raises.                                                          *)
(* Stated as claimed; execute catches KeyError only, and a dataset that is  *)
(* no mapping answers a subscript with TypeError.                           *)
(***************************************************************************)
ApplyRan == last.op \in {"apply_sensor", "apply_resolution"}

C3_StaleSelectionAppliesNothing ==
    [][(ApplyRan' /\ ~KeysPresent(SENSOR_DATA, props)) =>
           /\ camera' = camera
           /\ render' = render
           /\ last'.result # "RAISED"]_vars

(***************************************************************************)
(* C4.  CSD_OT_ApplyResolution writes the render resolution exactly when    *)
(* the selected format's resolution record holds a width and a height that  *)
(* are both integers, and then writes those two values; with either one     *)
(* missing or floating-point, poll is false, execute writes nothing and     *)
(* the settings keep their values.                                          *)
(***************************************************************************)
ResolutionWidth == Field(SENSOR_DATA, props, "resolution", "width")

ResolutionHeight == Field(SENSOR_DATA, props, "resolution", "height")

HasIntegerResolution == ResolutionWidth.t = "int" /\ ResolutionHeight.t = "int"

SelectedResolution ==
    [resolution_x |-> ResolutionWidth, resolution_y |-> ResolutionHeight]

ResolutionDecided ==
    LET ok == ApplyResolution_poll(SENSOR_DATA, props)
        out == ApplyResolution_execute(SENSOR_DATA, props, render)
    IN  IF HasIntegerResolution
        THEN /\ ok = [exc |-> "", v |-> TRUE]
             /\ out.result = "FINISHED"
             /\ out.render = SelectedResolution
        ELSE /\ ok = [exc |-> "", v |-> FALSE]
             /\ out.result # "FINISHED"
             /\ out.render = render

C4_ResolutionOnlyFromIntegers ==
    /\ []ResolutionDecided
    /\ [][/\ (last'.op = "apply_resolution") =>
                 /\ HasIntegerResolution
                 /\ last'.result = "FINISHED"
                 /\ render' = SelectedResolution
          /\ (render' # render) => last'.op = "apply_resolution"]_vars

\* The worked example's resolution applied over the default one.
C4_Witness ==
    /\ last.op = "apply_resolution"
    /\ last.result = "FINISHED"
    /\ HasIntegerResolution
    /\ render = [resolution_x |-> PyInt(8192), resolution_y |-> PyInt(5464)]

(***************************************************************************)
(* C5, as claimed.  CSD_OT_ApplySensor applies the mm pair whenever the     *)
(* selected format's mm record holds a width and a height: their presence,  *)
(* not their value, decides.                                                *)
(* It fails for a width of zero.                                            *)
(***************************************************************************)
SensorWidth == Field(SENSOR_DATA, props, "mm", "width")

SensorHeight == Field(SENSOR_DATA, props, "mm", "height")

IsNumber(v) == v.t \in {"int", "float"}

SelectedSensor ==
    [sensor_fit |-> "HORIZONTAL", sensor_width |-> SensorWidth,
     sensor_height |-> SensorHeight]

IsNonZero(v) == IsNumber(v) /\ v.n # 0

HasUsableSensor == IsNonZero(SensorWidth) /\ IsNonZero(SensorHeight)

SensorDecided ==
    LET out == ApplySensor_execute(SENSOR_DATA, props, camera)
    IN  IF HasUsableSensor
        THEN out.result = "FINISHED" /\ out.camera = SelectedSensor
        ELSE out.result # "FINISHED" /\ out.camera = camera

IsSortedItems(items, keys) ==
    /\ Len(items) = Cardinality(keys)
    /\ {items[i][1] : i \in 1..Len(items)} = keys
    /\ \A i \in 1..Len(items) : items[i] = <<items[i][1], items[i][1], "">>
    /\ \A i, j \in 1..Len(items) : i < j => StrLess(items[i][1], items[j][1])

\* The keys a list is drawn from: those of the mapping under the path, none
\* when the path leads to no mapping.
KeysUnder(data, path) ==
    LET v == Walk(data, path)
    IN  IF v.t = "dict" THEN DOMAIN v.o ELSE {}

ChoicesAre(result, unset, keys) ==
    /\ result.exc = ""
    /\ IF unset \/ keys = {}
       THEN result.v = <<NotApplicableItem>>
       ELSE IsSortedItems(result.v, keys)

Unset(selection) == selection = "" \/ selection = "NONE"

CascadingChoices ==
    /\ ChoicesAre(get_models(SENSOR_DATA, props), Unset(props.manufacturers),
                  KeysUnder(SENSOR_DATA, <<props.manufacturers>>))
    /\ ChoicesAre(get_formats(SENSOR_DATA, props),
                  Unset(props.manufacturers) \/ Unset(props.models),
                  KeysUnder(SENSOR_DATA, <<props.manufacturers, props.models,
                                           "sensor dimensions">>))

(***************************************************************************)
(* C6.  get_models returns the not-applicable sentinel when the             *)
(* manufacturer is unset, the sentinel or absent from the dataset, and      *)
(* otherwise the sorted model keys (the sentinel if none); get_formats      *)
(* does the same one level down; both whatever the descendant selections    *)
(* hold.                                                                    *)
(* Stated as claimed, over every value SENSOR_DATA takes; it fails where    *)
(* load_sensor_data has left a list there (C2).                             *)
(***************************************************************************)
C6_CascadingSentinelRule == CascadingChoices

\* The same rule over the datasets that are mappings, where it holds.
C6_RuleOnMappings == SENSOR_DATA.t = "dict" => CascadingChoices

(***************************************************************************)
(* C7.  For every dataset (a mapping), get_manufacturers returns all        *)
(* manufacturer keys sorted and without duplicates, and one sentinel        *)
(* choice for the empty dataset; the sentinel's identifier is no            *)
(* manufacturer key of any dataset.                                         *)
(* Stated as claimed; it fails for a dataset with a manufacturer NONE.      *)
(***************************************************************************)
C7_ManufacturerChoices ==
    SENSOR_DATA.t = "dict" =>
        LET result == get_manufacturers(SENSOR_DATA)
            keys == DOMAIN SENSOR_DATA.o
        IN  /\ result.exc = ""
            /\ IF keys = {} THEN result.v = <<NoDataItem>>
               ELSE IsSortedItems(result.v, keys)
            /\ NoDataItem[1] \notin keys

\* The sorted, duplicate-free part of C7 alone, which holds.
C7_SortedOnMappings ==
    SENSOR_DATA.t = "dict" =>
        LET result == get_manufacturers(SENSOR_DATA)
            keys == DOMAIN SENSOR_DATA.o
        IN  /\ result.exc = ""
            /\ IF keys = {} THEN result.v = <<NoDataItem>>
               ELSE IsSortedItems(result.v, keys)

=============================================================================
